---- MODULE Spec2Model ----
(***************************************************************************)
(* A model of skandragon/gohealthcheck (src/health/health.go).             *)
(*                                                                         *)
(* Two threads of control act on one Health value h:                       *)
(*   - the scheduler goroutine running RunCheckers (position spc), and     *)
(*   - a caller (position cpc) that calls AddCheck, RemoveCheck,           *)
(*     StopCheckers and the HTTP handler one after another.  All of these  *)
(*     run their bodies under h's mutex, so any number of callers is       *)
(*     equivalent to one caller that issues the calls in lock order.       *)
(*                                                                         *)
(* h.Checks is a Go slice: a backing array (arr, whose length is the       *)
(* capacity) and a length (len).  Slots of arr beyond len keep what was    *)
(* last stored there.  runChecker works through a pointer into the backing *)
(* array that is taken and used while the mutex is NOT held, so the model  *)
(* keeps that pointer (checker), follows what the slot it points at holds, *)
(* and splits runChecker into its separate reads and writes.               *)
(***************************************************************************)
EXTENDS Integers, Sequences, FiniteSets, TLC

VARIABLES
    Checks,         \* h.Checks: [arr |-> backing array, len |-> length]
    Healthy,        \* h.Healthy
    run,            \* h.run
    lock,           \* h.Mutex: "free", "sched" or "caller"
    spc,            \* position of the RunCheckers goroutine
    frequency,      \* RunCheckers' parameter
    nextIndex,      \* RunCheckers' local nextIndex (0-based, as in Go)
    firstPass,      \* RunCheckers' local firstPass
    count,          \* RunCheckers' local count
    sleepDuration,  \* RunCheckers' local sleepDuration, in nanoseconds
    checker,        \* runChecker's parameter: the pointer &h.Checks[nextIndex]
    old,            \* the slot checker points at, once append has moved h.Checks
    probe,          \* the Checker whose Check() the scheduler is executing
    err,            \* runChecker's local err
    evaluating,     \* the Service of the element whose Check() runChecker
                    \* entered, "" once runChecker has returned
    cpc,            \* position of the caller
    args,           \* the parameters of the caller's current call
    w               \* the http.ResponseWriter after the handler's last answer

vars == <<Checks, Healthy, run, lock, spc, frequency, nextIndex, firstPass,
          count, sleepDuration, checker, old, probe, err, evaluating, cpc,
          args, w>>

schedLocals == <<frequency, nextIndex, firstPass, count, sleepDuration>>
runLocals == <<checker, old, probe, err, evaluating>>
callerVars == <<cpc, args, w>>

-----------------------------------------------------------------------------
(* Bounds and input sets *)

\* time.Now().UnixMilli() is drawn from 1..MaxTime
MaxTime == 1

\* the largest registry the loop is run on without mutation
MaxChecks == 3

\* service names the caller registers and removes
Names == {"a", "b"}

\* the AddCheck calls the caller makes: <<service, observeOnly, checker>>.  Each
\* name comes with both values of observeOnly and with both probes.
Calls == {<<"a", FALSE, "failChecker">>, <<"a", TRUE, "successChecker">>,
          <<"b", FALSE, "successChecker">>, <<"b", TRUE, "failChecker">>}

\* the probes of the test file: successChecker returns nil, failChecker an error
Probes == {"successChecker", "failChecker"}

\* the frequency (seconds) RunCheckers is started with
Frequencies == {1, 2}

Nil == "nil"

\* testChecker.Check: the error the probe returns
Check(c) == IF c = "failChecker" THEN "Generic Error" ELSE Nil

\* time.Second and time.Millisecond, in nanoseconds
Second == 1000000000
Millisecond == 1000000

-----------------------------------------------------------------------------
(* healthIndicator values and the slice h.Checks *)

\* healthIndicator{service, true, "", observeOnly, 0, checker}
NewIndicator(service, observeOnly, c) ==
    [Service |-> service, Healthy |-> TRUE, Message |-> <<>>,
     ObserveOnly |-> observeOnly, LastChecked |-> 0, checker |-> c]

\* Go's zero healthIndicator (what a fresh backing array holds)
ZeroIndicator ==
    [Service |-> "", Healthy |-> FALSE, Message |-> <<>>,
     ObserveOnly |-> FALSE, LastChecked |-> 0, checker |-> Nil]

Cap(s) == Len(s.arr)

\* the elements of the slice, s[0..len-1]
Elems(s) == SubSeq(s.arr, 1, s.len)

Zeros(n) == [i \in 1..n |-> ZeroIndicator]

\* the capacity append grows a full slice to
GrowCap(c) == IF c = 0 THEN 1 ELSE 2 * c

\* append(s, e) allocates a new backing array exactly when the slice is full
Reallocates(s) == s.len = Cap(s)

\* append(s, e)
Append1(s, e) ==
    IF Reallocates(s)
    THEN [arr |-> Elems(s) \o <<e>> \o Zeros(GrowCap(Cap(s)) - s.len - 1),
          len |-> s.len + 1]
    ELSE [arr |-> [s.arr EXCEPT ![s.len + 1] = e], len |-> s.len + 1]

\* the 0-based index of the first element named service, or -1
IndexOf(s, service) ==
    IF \E i \in 1..s.len : s.arr[i].Service = service
    THEN (CHOOSE i \in 1..s.len :
              /\ s.arr[i].Service = service
              /\ \A j \in 1..(i - 1) : s.arr[j].Service # service) - 1
    ELSE -1

-----------------------------------------------------------------------------
(* The pure parts of the operations *)

\* mutant: the truncation without `s[i] = s[len(s)-1]`
removeChecker_truncateOnly(s, i) == [s EXCEPT !.len = s.len - 1]

\* removeChecker(s, i): s[i] = s[len(s)-1]; return s[:len(s)-1]   (i is 0-based)
removeChecker(s, i) ==
    [arr |-> [s.arr EXCEPT ![i + 1] = s.arr[s.len]], len |-> s.len - 1]

\* mutant: the matching element is replaced by a fresh healthIndicator
AddCheckFound_fresh(s, i, observeOnly, c) ==
    [s EXCEPT !.arr[i + 1] = NewIndicator(s.arr[i + 1].Service, observeOnly, c)]

\* AddCheck's loop body when c.Service == service: c is the range loop's COPY of
\* the element, so the two assignments change the copy and h.Checks keeps its
\* elements as they were
AddCheckFound(s, i, observeOnly, c) == s

\* mutant: AddCheck without its loop over h.Checks
AddCheckChecks_alwaysAppend(s, service, observeOnly, c) ==
    Append1(s, NewIndicator(service, observeOnly, c))

\* h.Checks after AddCheck(service, observeOnly, c)
AddCheckChecks(s, service, observeOnly, c) ==
    IF IndexOf(s, service) >= 0
    THEN AddCheckFound(s, IndexOf(s, service), observeOnly, c)
    ELSE Append1(s, NewIndicator(service, observeOnly, c))

\* h.Checks after RemoveCheck(service)
RemoveCheckChecks(s, service) ==
    IF IndexOf(s, service) >= 0
    THEN removeChecker(s, IndexOf(s, service))
    ELSE s

\* RunCheckers' loop over h.Checks: h.Healthy = h.Healthy && c.Healthy for every
\* c that is not ObserveOnly, from element i on, acc being h.Healthy so far
RECURSIVE HealthyFrom(_, _, _)
HealthyFrom(s, i, acc) ==
    IF i > s.len THEN acc
    ELSE IF s.arr[i].ObserveOnly THEN HealthyFrom(s, i + 1, acc)
    ELSE HealthyFrom(s, i + 1, acc /\ s.arr[i].Healthy)

\* mutant: the loop without its `if c.ObserveOnly { continue }`
ComputeHealthy_countsObserveOnly(s) == \A i \in 1..s.len : s.arr[i].Healthy

\* mutant: the loop with `h.Healthy = c.Healthy`, so that the last element that
\* is not ObserveOnly decides
ComputeHealthy_lastDecides(s) ==
    LET critical == {i \in 1..s.len : ~s.arr[i].ObserveOnly}
    IN  IF critical = {} THEN TRUE
        ELSE s.arr[CHOOSE i \in critical : \A j \in critical : j <= i].Healthy

\* h.Healthy = true, then the loop
ComputeHealthy(s) == HealthyFrom(s, 1, TRUE)

\* fmt.Sprintf("%s ERROR %v", service, err): the pieces of the string, in order
Sprintf(service, e) == <<service, " ERROR ", e>>

\* mutant: only the error branch writes checker.Healthy
SetHealthy_onlyOnError(c, e) == IF e = Nil THEN c ELSE [c EXCEPT !.Healthy = FALSE]

\* runChecker's write of checker.Healthy
SetHealthy(c, e) == [c EXCEPT !.Healthy = (e = Nil)]

\* runChecker's write of checker.Message
SetMessage(c, e) ==
    [c EXCEPT !.Message = IF e = Nil THEN <<"OK">> ELSE Sprintf(c.Service, e)]

\* runChecker's write of checker.LastChecked
SetLastChecked(c, now) == [c EXCEPT !.LastChecked = now]

\* a sleep of the whole frequency, whatever count is
SleepFor_ignoresCount(freq, cnt, first) ==
    IF first THEN 10 * Millisecond ELSE freq * Second

\* sleepDuration as RunCheckers computes it
SleepFor(freq, cnt, first) ==
    IF first THEN 10 * Millisecond ELSE (freq * Second) \div cnt

\* what json.Marshal(h) writes for the field Healthy (`json:"healthy,omitempty"`)
MarshalHealthy(b) == IF b THEN "true" ELSE "omitted"

-----------------------------------------------------------------------------
(* The pointer runChecker works through *)

NoPointer == [kind |-> "none", idx |-> 0]
NoArgs == [service |-> "", observeOnly |-> FALSE, checker |-> Nil]
NoResponse == [code |-> 0, healthy |-> ""]

\* the healthIndicator that checker points at
Target == IF checker.kind = "stale" THEN old ELSE Checks.arr[checker.idx + 1]

\* *checker = c
Store(c) ==
    IF checker.kind = "stale"
    THEN /\ old' = c
         /\ UNCHANGED Checks
    ELSE /\ Checks' = [Checks EXCEPT !.arr[checker.idx + 1] = c]
         /\ UNCHANGED old

\* an unrecovered panic in the scheduler goroutine ends the whole process
Alive == spc # "panicked"

-----------------------------------------------------------------------------
Init ==
    /\ Checks = [arr |-> <<>>, len |-> 0]
    /\ Healthy = FALSE
    /\ run = FALSE
    /\ lock = "free"
    /\ spc = "idle"
    /\ frequency = 0
    /\ nextIndex = 0
    /\ firstPass = FALSE
    /\ count = 0
    /\ sleepDuration = 0
    /\ checker = NoPointer
    /\ old = ZeroIndicator
    /\ probe = Nil
    /\ err = Nil
    /\ evaluating = ""
    /\ cpc = "idle"
    /\ args = NoArgs
    /\ w = NoResponse

-----------------------------------------------------------------------------
(* RunCheckers, the scheduler goroutine *)

sharedVars == <<Checks, Healthy, run>>

\* go h.RunCheckers(frequency): nextIndex := 0; firstPass := true
RunCheckers ==
    /\ Alive
    /\ spc = "idle"
    /\ \E f \in Frequencies : frequency' = f
    /\ nextIndex' = 0
    /\ firstPass' = TRUE
    /\ spc' = "L125"
    /\ UNCHANGED <<sharedVars, lock, count, sleepDuration, runLocals, callerVars>>

\* line 125: h.Lock()
StartLock ==
    /\ Alive
    /\ spc = "L125"
    /\ lock = "free"
    /\ lock' = "sched"
    /\ spc' = "L126"
    /\ UNCHANGED <<sharedVars, schedLocals, runLocals, callerVars>>

\* lines 126-128: h.run = true; count := len(h.Checks) + 1; h.Unlock();
\* lines 132-136: the first sleepDuration, and the goroutine sleeps
StartRun ==
    /\ Alive
    /\ spc = "L126"
    /\ run' = TRUE
    /\ count' = Checks.len + 1
    /\ lock' = "free"
    /\ sleepDuration' = SleepFor(frequency, Checks.len + 1, firstPass)
    /\ spc' = "L136"
    /\ UNCHANGED <<Checks, Healthy, frequency, nextIndex, firstPass, runLocals,
                   callerVars>>

\* lines 136-139: the sleep ends (sleepDuration is not used again); h.Lock()
WakeLock ==
    /\ Alive
    /\ spc = "L136"
    /\ lock = "free"
    /\ lock' = "sched"
    /\ sleepDuration' = 0
    /\ spc' = "L140"
    /\ UNCHANGED <<sharedVars, frequency, nextIndex, firstPass, count, runLocals,
                   callerVars>>

\* mutant: the early return without its h.Unlock()
StopReturn_noUnlock ==
    /\ Alive
    /\ spc = "L140"
    /\ ~run
    /\ count' = Checks.len + 1
    /\ spc' = "returned"
    /\ UNCHANGED <<sharedVars, lock, frequency, nextIndex, firstPass,
                   sleepDuration, runLocals, callerVars>>

\* lines 140-144 with h.run false: count is refreshed, h.Unlock(), return
StopReturn ==
    /\ Alive
    /\ spc = "L140"
    /\ ~run
    /\ count' = Checks.len + 1
    /\ lock' = "free"
    /\ spc' = "returned"
    /\ UNCHANGED <<sharedVars, frequency, nextIndex, firstPass, sleepDuration,
                   runLocals, callerVars>>

\* nextIndex after lines 145-148
\* the wrap of lines 145-148 resetting nextIndex to 1
Wrapped_skipsFirst(s, idx) == IF idx >= s.len THEN (IF s.len > 1 THEN 1 ELSE 0) ELSE idx

Wrapped(s, idx) == IF idx >= s.len THEN 0 ELSE idx

\* firstPass never cleared by the wrap
FirstPassAfter_neverCleared(s, idx, first) == first

\* firstPass after lines 145-148
FirstPassAfter(s, idx, first) == IF idx >= s.len THEN FALSE ELSE first

\* lines 140-150 without the test of h.run at line 141
SelectUnlock_ignoresRun ==
    /\ Alive
    /\ spc = "L140"
    /\ Checks.len > 0
    /\ count' = Checks.len + 1
    /\ nextIndex' = Wrapped(Checks, nextIndex)
    /\ firstPass' = FirstPassAfter(Checks, nextIndex, firstPass)
    /\ lock' = "free"
    /\ spc' = "L151"
    /\ UNCHANGED <<sharedVars, frequency, sleepDuration, runLocals, callerVars>>

\* lines 140-149 without the h.Unlock() of line 150: the probe would be run
\* with the mutex held
SelectUnlock_keepsLock ==
    /\ Alive
    /\ spc = "L140"
    /\ run
    /\ Checks.len > 0
    /\ count' = Checks.len + 1
    /\ nextIndex' = Wrapped(Checks, nextIndex)
    /\ firstPass' = FirstPassAfter(Checks, nextIndex, firstPass)
    /\ spc' = "L151"
    /\ UNCHANGED <<sharedVars, lock, frequency, sleepDuration, runLocals,
                   callerVars>>

\* lines 140-150 with h.run true and checks registered: refresh count, wrap
\* nextIndex, h.Unlock() before the probe is run
SelectUnlock ==
    /\ Alive
    /\ spc = "L140"
    /\ run
    /\ Checks.len > 0
    /\ count' = Checks.len + 1
    /\ nextIndex' = Wrapped(Checks, nextIndex)
    /\ firstPass' = FirstPassAfter(Checks, nextIndex, firstPass)
    /\ lock' = "free"
    /\ spc' = "L151"
    /\ UNCHANGED <<sharedVars, frequency, sleepDuration, runLocals, callerVars>>

\* lines 140-163 with h.run true and no checks: refresh count, wrap nextIndex,
\* skip the probe, nextIndex++, recompute h.Healthy (the mutex stays held)
SelectNone ==
    /\ Alive
    /\ spc = "L140"
    /\ run
    /\ Checks.len = 0
    /\ count' = Checks.len + 1
    /\ nextIndex' = Wrapped(Checks, nextIndex) + 1
    /\ firstPass' = FirstPassAfter(Checks, nextIndex, firstPass)
    /\ Healthy' = ComputeHealthy(Checks)
    /\ spc' = "L164"
    /\ UNCHANGED <<Checks, run, lock, frequency, sleepDuration, runLocals,
                   callerVars>>

\* line 151, the argument &h.Checks[nextIndex]: evaluated after h.Unlock(), so
\* against h.Checks as it is now; an index out of range panics
TakePointer ==
    /\ Alive
    /\ spc = "L151"
    /\ IF nextIndex < Checks.len
       THEN /\ checker' = [kind |-> "live", idx |-> nextIndex]
            /\ spc' = "L109"
       ELSE /\ checker' = checker
            /\ spc' = "panicked"
    /\ UNCHANGED <<sharedVars, lock, schedLocals, old, probe, err, evaluating,
                   callerVars>>

\* line 109: checker.checker is read and its Check() is entered
CallCheck ==
    /\ Alive
    /\ spc = "L109"
    /\ probe' = Target.checker
    /\ evaluating' = Target.Service
    /\ spc' = "Check"
    /\ UNCHANGED <<sharedVars, lock, schedLocals, checker, old, err, callerVars>>

\* line 109: Check() returns, err := its result;
\* line 111 or 114: checker.Healthy = (err == nil)
WriteHealthy ==
    /\ Alive
    /\ spc = "Check"
    /\ err' = Check(probe)
    /\ probe' = Nil
    /\ Store(SetHealthy(Target, Check(probe)))
    /\ spc' = "L112"
    /\ UNCHANGED <<Healthy, run, lock, schedLocals, checker, evaluating,
                   callerVars>>

\* line 112 or 115: checker.Message = "OK" or the formatted error
WriteMessage ==
    /\ Alive
    /\ spc = "L112"
    /\ Store(SetMessage(Target, err))
    /\ spc' = "L117"
    /\ UNCHANGED <<Healthy, run, lock, schedLocals, checker, probe, err,
                   evaluating, callerVars>>

\* line 117: checker.LastChecked = now; runChecker returns
WriteLastChecked ==
    /\ Alive
    /\ spc = "L117"
    /\ \E now \in 1..MaxTime : Store(SetLastChecked(Target, now))
    /\ evaluating' = ""
    /\ spc' = "L152"
    /\ UNCHANGED <<Healthy, run, lock, schedLocals, checker, probe, err,
                   callerVars>>

\* line 152: h.Lock() (runChecker's frame is gone); line 154: nextIndex++;
\* lines 157-163: recompute h.Healthy
Relock ==
    /\ Alive
    /\ spc = "L152"
    /\ lock = "free"
    /\ lock' = "sched"
    /\ checker' = NoPointer
    /\ old' = ZeroIndicator
    /\ err' = Nil
    /\ nextIndex' = nextIndex + 1
    /\ Healthy' = ComputeHealthy(Checks)
    /\ spc' = "L164"
    /\ UNCHANGED <<Checks, run, frequency, firstPass, count, sleepDuration, probe,
                   evaluating, callerVars>>

\* line 164: h.Unlock(); lines 132-136: the next sleepDuration, and the
\* goroutine sleeps
TickUnlock ==
    /\ Alive
    /\ spc = "L164"
    /\ lock' = "free"
    /\ sleepDuration' = SleepFor(frequency, count, firstPass)
    /\ spc' = "L136"
    /\ UNCHANGED <<sharedVars, frequency, nextIndex, firstPass, count, runLocals,
                   callerVars>>

Scheduler ==
    \/ RunCheckers \/ StartLock \/ StartRun \/ WakeLock \/ StopReturn
    \/ SelectUnlock \/ SelectNone \/ TakePointer \/ CallCheck \/ WriteHealthy
    \/ WriteMessage \/ WriteLastChecked \/ Relock \/ TickUnlock

-----------------------------------------------------------------------------
(* The caller: AddCheck, RemoveCheck, StopCheckers and the HTTP handler *)

schedVars == <<spc, frequency, nextIndex, firstPass, count, sleepDuration, probe,
               err, evaluating>>

\* checker and old after AddCheck: when append moves h.Checks to a new backing
\* array, a pointer runChecker holds keeps pointing into the array left behind
PointerAfterAppend(s, p, o, service) ==
    IF IndexOf(s, service) < 0 /\ Reallocates(s) /\ p.kind = "live"
    THEN <<[p EXCEPT !.kind = "stale"], s.arr[p.idx + 1]>>
    ELSE <<p, o>>

\* lines 83-92: AddCheck(service, observeOnly, c) takes the mutex, loops over
\* h.Checks, and appends when no element matches
AddCheck(service, observeOnly, c) ==
    /\ Alive
    /\ cpc = "idle"
    /\ lock = "free"
    /\ lock' = "caller"
    /\ args' = [service |-> service, observeOnly |-> observeOnly, checker |-> c]
    /\ Checks' = AddCheckChecks(Checks, service, observeOnly, c)
    /\ checker' = PointerAfterAppend(Checks, checker, old, service)[1]
    /\ old' = PointerAfterAppend(Checks, checker, old, service)[2]
    /\ cpc' = IF IndexOf(Checks, service) >= 0 THEN "AddCheck_L89" ELSE "AddCheck_L92"
    /\ UNCHANGED <<Healthy, run, schedVars, w>>

\* AddCheck returns: the deferred h.Unlock()
AddCheckUnlock ==
    /\ Alive
    /\ cpc \in {"AddCheck_L89", "AddCheck_L92"}
    /\ lock' = "free"
    /\ cpc' = "idle"
    /\ args' = NoArgs
    /\ UNCHANGED <<sharedVars, schedVars, checker, old, w>>

\* lines 97-104: RemoveCheck(service) takes the mutex, loops over h.Checks and
\* calls removeChecker on the element that matches
RemoveCheck(service) ==
    /\ Alive
    /\ cpc = "idle"
    /\ lock = "free"
    /\ lock' = "caller"
    /\ args' = [NoArgs EXCEPT !.service = service]
    /\ Checks' = RemoveCheckChecks(Checks, service)
    /\ cpc' = IF IndexOf(Checks, service) >= 0
              THEN "RemoveCheck_L102" ELSE "RemoveCheck_L105"
    /\ UNCHANGED <<Healthy, run, schedVars, checker, old, w>>

\* RemoveCheck returns: the deferred h.Unlock()
RemoveCheckUnlock ==
    /\ Alive
    /\ cpc \in {"RemoveCheck_L102", "RemoveCheck_L105"}
    /\ lock' = "free"
    /\ cpc' = "idle"
    /\ args' = NoArgs
    /\ UNCHANGED <<sharedVars, schedVars, checker, old, w>>

\* lines 170-172: StopCheckers() takes the mutex; h.run = false
StopCheckers ==
    /\ Alive
    /\ cpc = "idle"
    /\ lock = "free"
    /\ lock' = "caller"
    /\ run' = FALSE
    /\ cpc' = "StopCheckers_L173"
    /\ UNCHANGED <<Checks, Healthy, schedVars, checker, old, args, w>>

\* StopCheckers returns: the deferred h.Unlock()
StopCheckersUnlock ==
    /\ Alive
    /\ cpc = "StopCheckers_L173"
    /\ lock' = "free"
    /\ cpc' = "idle"
    /\ UNCHANGED <<sharedVars, schedVars, checker, old, args, w>>

\* lines 185-188: a request arrives; the handler takes the mutex and reads
\* data := json.Marshal(h) (which cannot fail for this struct) and
\* healthy := h.Healthy.  h.Healthy is written only under the mutex, so while
\* the handler holds it the local healthy equals h.Healthy.
HTTPHandlerLock ==
    /\ Alive
    /\ cpc = "idle"
    /\ lock = "free"
    /\ lock' = "caller"
    /\ cpc' = "HTTPHandler_L189"
    /\ UNCHANGED <<sharedVars, schedVars, checker, old, args, w>>

\* the status the doc comment of HTTPHandler names for an unhealthy registry
StatusCode_asDocumented(healthy) == IF healthy THEN 200 ELSE 500

\* the status code the handler writes for the value of h.Healthy it read
StatusCode(healthy) == IF healthy THEN 200 ELSE 418

\* lines 189-206: h.Unlock(); w.WriteHeader(200 or 418); w.Write(data).
\* Of the body, w keeps the member "healthy".
HTTPHandler ==
    /\ Alive
    /\ cpc = "HTTPHandler_L189"
    /\ w' = [code |-> StatusCode(Healthy), healthy |-> MarshalHealthy(Healthy)]
    /\ lock' = "free"
    /\ cpc' = "HTTPHandler_L207"
    /\ UNCHANGED <<sharedVars, schedVars, checker, old, args>>

\* the handler returns and the request, with its ResponseWriter, is over
HTTPHandlerReturn ==
    /\ Alive
    /\ cpc = "HTTPHandler_L207"
    /\ w' = NoResponse
    /\ cpc' = "idle"
    /\ UNCHANGED <<sharedVars, lock, schedVars, checker, old, args>>

Caller ==
    \/ \E call \in Calls : AddCheck(call[1], call[2], call[3])
    \/ AddCheckUnlock
    \/ \E service \in Names : RemoveCheck(service)
    \/ RemoveCheckUnlock
    \/ StopCheckers
    \/ StopCheckersUnlock
    \/ HTTPHandlerLock
    \/ HTTPHandler
    \/ HTTPHandlerReturn

Next == Scheduler \/ Caller

Spec == Init /\ [][Next]_vars

\* The scheduler goroutine keeps running: each of its steps is taken once it
\* stays possible, h.Lock() is granted to a goroutine that keeps asking
\* (sync.Mutex hands the mutex to a starving waiter), every Check() returns, and
\* a caller that holds the mutex releases it.  A caller need not make calls.
Fairness ==
    /\ WF_vars(StartRun) /\ WF_vars(StopReturn) /\ WF_vars(SelectUnlock)
    /\ WF_vars(SelectNone) /\ WF_vars(TakePointer) /\ WF_vars(CallCheck)
    /\ WF_vars(WriteHealthy) /\ WF_vars(WriteMessage) /\ WF_vars(WriteLastChecked)
    /\ WF_vars(TickUnlock)
    /\ SF_vars(StartLock) /\ SF_vars(WakeLock) /\ SF_vars(Relock)
    /\ WF_vars(AddCheckUnlock) /\ WF_vars(RemoveCheckUnlock)
    /\ WF_vars(StopCheckersUnlock) /\ WF_vars(HTTPHandler)
    /\ WF_vars(HTTPHandlerReturn)

\* The behaviours in which StopCheckers is called only after RunCheckers has
\* been invoked, under Fairness
FairNext ==
    \/ Scheduler
    \/ \E call \in Calls : AddCheck(call[1], call[2], call[3])
    \/ AddCheckUnlock
    \/ \E service \in Names : RemoveCheck(service)
    \/ RemoveCheckUnlock
    \/ (spc # "idle" /\ StopCheckers)
    \/ StopCheckersUnlock
    \/ HTTPHandlerLock
    \/ HTTPHandler
    \/ HTTPHandlerReturn

FairSpec == Init /\ [][FairNext]_vars /\ Fairness

\* runChecker on its own, as the test calls it: h.runChecker(&h.Checks[0]) on a
\* registry of one element in any state an element can be in, nothing else
\* running
Indicators ==
    {[Service |-> service, Healthy |-> healthy, Message |-> message,
      ObserveOnly |-> call[2], LastChecked |-> last, checker |-> call[3]] :
        service \in Names, healthy \in BOOLEAN,
        message \in {<<>>, <<"OK">>, Sprintf("a", "Generic Error"),
                     Sprintf("b", "Generic Error")},
        call \in Calls, last \in 0..MaxTime}

RunCheckerInit ==
    /\ \E c \in Indicators : Checks = [arr |-> <<c>>, len |-> 1]
    /\ Healthy \in BOOLEAN
    /\ run = FALSE
    /\ lock = "free"
    /\ spc = "L109"
    /\ frequency = 0
    /\ nextIndex = 0
    /\ firstPass = FALSE
    /\ count = 0
    /\ sleepDuration = 0
    /\ checker = [kind |-> "live", idx |-> 0]
    /\ old = ZeroIndicator
    /\ probe = Nil
    /\ err = Nil
    /\ evaluating = ""
    /\ cpc = "idle"
    /\ args = NoArgs
    /\ w = NoResponse

RunCheckerNext == CallCheck \/ WriteHealthy \/ WriteMessage \/ WriteLastChecked

RunCheckerSpec == RunCheckerInit /\ [][RunCheckerNext]_vars

\* The loop running on a registry nobody mutates: the caller has registered
\* 1..MaxChecks fresh checks (no entry evaluated yet: LastChecked 0), the loop
\* is asleep at line 136 with h.run set, and nextIndex is wherever earlier
\* ticks, removals and additions left it.
RotationNames == <<"a", "b", "c", "d">>

RECURSIVE Registered(_)
Registered(n) ==
    IF n = 0
    THEN {[arr |-> <<>>, len |-> 0]}
    ELSE {AddCheckChecks(s, RotationNames[n], o, c) :
              s \in Registered(n - 1), o \in BOOLEAN, c \in Probes}

RotationInit ==
    /\ \E n \in 1..MaxChecks :
          /\ Checks \in Registered(n)
          /\ nextIndex \in 0..(n + 1)
          /\ count = n + 1
    /\ Healthy \in BOOLEAN
    /\ run = TRUE
    /\ lock = "free"
    /\ spc = "L136"
    /\ frequency \in Frequencies
    /\ firstPass \in BOOLEAN
    /\ sleepDuration = SleepFor(frequency, count, firstPass)
    /\ checker = NoPointer
    /\ old = ZeroIndicator
    /\ probe = Nil
    /\ err = Nil
    /\ evaluating = ""
    /\ cpc = "idle"
    /\ args = NoArgs
    /\ w = NoResponse

RotationNext ==
    \/ WakeLock
    \/ SelectUnlock
    \/ TakePointer
    \/ CallCheck
    \/ WriteHealthy
    \/ WriteMessage
    \/ WriteLastChecked
    \/ Relock
    \/ TickUnlock

RotationSpec == RotationInit /\ [][RotationNext]_vars

-----------------------------------------------------------------------------
(* Properties *)

\* the AND of the Healthy flags of the elements that are not ObserveOnly
AllCriticalHealthy(s) ==
    \A i \in 1..s.len : ~s.arr[i].ObserveOnly => s.arr[i].Healthy

\* the service names registered
NamesOf(s) == {s.arr[i].Service : i \in 1..s.len}

\* the element named service (names are distinct)
Named(s, service) == s.arr[IndexOf(s, service) + 1]

\* C1: when RunCheckers is about to release the mutex after recomputing (line
\* 164), h.Healthy is the AND of Healthy over the elements that are not
\* ObserveOnly: one unhealthy such element makes it false, and ObserveOnly
\* elements do not count.
C1_AggregateAtTickEnd ==
    spc = "L164" => (Healthy <=> AllCriticalHealthy(Checks))

\* a tick ends with an unhealthy ObserveOnly element, a critical element, and a
\* true aggregate
C1_Witness ==
    /\ spc = "L164"
    /\ Healthy
    /\ \E i \in 1..Checks.len : Checks.arr[i].ObserveOnly /\ ~Checks.arr[i].Healthy
    /\ \E i \in 1..Checks.len : ~Checks.arr[i].ObserveOnly

C3_NoDeadlock ==
    /\ lock = "sched" <=> spc \in {"L126", "L140", "L164"}
    /\ lock = "caller" <=> cpc \in {"AddCheck_L89", "AddCheck_L92",
                                    "RemoveCheck_L102", "RemoveCheck_L105",
                                    "StopCheckers_L173", "HTTPHandler_L189"}
    /\ (Alive /\ lock = "sched") => ENABLED (StartRun \/ StopReturn \/ SelectUnlock
                                             \/ SelectNone \/ TickUnlock)
    /\ (Alive /\ cpc \in {"AddCheck_L89", "AddCheck_L92"}) => ENABLED AddCheckUnlock
    /\ (Alive /\ cpc \in {"RemoveCheck_L102", "RemoveCheck_L105"})
           => ENABLED RemoveCheckUnlock
    /\ (spc = "returned" /\ cpc = "idle") => lock = "free"

\* RunCheckers has returned after a StopCheckers, with two checks registered,
\* and the mutex is free
C3_Witness ==
    /\ spc = "returned"
    /\ ~run
    /\ Checks.len = 2
    /\ cpc = "idle"
    /\ lock = "free"


\* C4: once StopCheckers, called at any time after RunCheckers was invoked, has
\* cleared h.run, RunCheckers eventually returns (every Check() returns and the
\* goroutine is scheduled fairly: FairSpec).
C4_StopLeadsToReturn ==
    (cpc = "StopCheckers_L173") ~> (spc = "returned")

\* C5: whenever RunCheckers has stopped executing, h.run is false: only
\* StopCheckers ends the loop.
C5_EndsOnlyWhenStopped ==
    spc \in {"returned", "panicked"} => ~run

\* C6: when AddCheck(service, observeOnly, c) has found service registered and
\* returns, the element named service has the new observeOnly and the new c.
C6_AddCheckReplaces ==
    cpc = "AddCheck_L89" =>
        /\ Named(Checks, args.service).ObserveOnly = args.observeOnly
        /\ Named(Checks, args.service).checker = args.checker

\* a step of AddCheck(service, ..) / of RemoveCheck(service)
IsAddCheck(service) ==
    /\ cpc = "idle"
    /\ cpc' \in {"AddCheck_L89", "AddCheck_L92"}
    /\ args'.service = service

IsRemoveCheck(service) ==
    /\ cpc = "idle"
    /\ cpc' \in {"RemoveCheck_L102", "RemoveCheck_L105"}
    /\ args'.service = service

\* C7: AddCheck with a service that is registered leaves the number of elements,
\* the Healthy, Message and LastChecked of that element, every field of every
\* other element, and h.Healthy as they were.
C7_AddCheckExistingFrame ==
    [][\A service \in NamesOf(Checks) :
          IsAddCheck(service) =>
              /\ Checks'.len = Checks.len
              /\ NamesOf(Checks') = NamesOf(Checks)
              /\ Named(Checks', service).Healthy = Named(Checks, service).Healthy
              /\ Named(Checks', service).Message = Named(Checks, service).Message
              /\ Named(Checks', service).LastChecked
                     = Named(Checks, service).LastChecked
              /\ \A other \in NamesOf(Checks) \ {service} :
                     Named(Checks', other) = Named(Checks, other)
              /\ Healthy' = Healthy]_vars

\* AddCheck has found its service registered, on an element that was checked and
\* found unhealthy, with another element registered beside it
C7_Witness ==
    /\ cpc = "AddCheck_L89"
    /\ Checks.len = 2
    /\ ~Named(Checks, args.service).Healthy
    /\ Named(Checks, args.service).LastChecked > 0
    /\ Named(Checks, args.service).Message # <<>>

\* C8: the registered names are pairwise distinct; AddCheck(service) adds
\* service to them, RemoveCheck(service) takes it from them, nothing else changes
\* them (so the size is the number of names added and not removed since); and an
\* element AddCheck appends is {service, true, "", observeOnly, 0, c}.
C8_NamesDistinctAndCounted ==
    [][/\ Cardinality(NamesOf(Checks')) = Checks'.len
       /\ \A service \in Names :
              /\ IsAddCheck(service) =>
                     /\ NamesOf(Checks') = NamesOf(Checks) \cup {service}
                     /\ service \notin NamesOf(Checks) =>
                            Checks'.arr[Checks'.len] =
                                [Service |-> service, Healthy |-> TRUE,
                                 Message |-> <<>>,
                                 ObserveOnly |-> args'.observeOnly,
                                 LastChecked |-> 0, checker |-> args'.checker]
              /\ IsRemoveCheck(service) =>
                     NamesOf(Checks') = NamesOf(Checks) \ {service}
       /\ ~(\E service \in Names : IsAddCheck(service) \/ IsRemoveCheck(service))
              => NamesOf(Checks') = NamesOf(Checks)]_vars

\* AddCheck has appended a second element next to one that was checked and that
\* a RemoveCheck moved to the front, while the scheduler sleeps
C8_Witness ==
    /\ cpc = "AddCheck_L92"
    /\ Checks.len = 2
    /\ Checks.arr[1].LastChecked > 0
    /\ Checks.arr[1].Service = "b"
    /\ Checks.arr[2] = NewIndicator("a", args.observeOnly, args.checker)
    /\ spc = "L136"

\* C9: RemoveCheck(service) with service registered removes that element: the
\* size goes down by one and every other element stays registered with all its
\* fields; with service not registered (also on an empty registry) nothing
\* changes.
C9_RemoveCheckFrame ==
    [][\A service \in Names :
          IsRemoveCheck(service) =>
              IF service \in NamesOf(Checks)
              THEN /\ Checks'.len = Checks.len - 1
                   /\ NamesOf(Checks') = NamesOf(Checks) \ {service}
                   /\ \A other \in NamesOf(Checks) \ {service} :
                          Named(Checks', other) = Named(Checks, other)
                   /\ UNCHANGED <<Healthy, run>>
              ELSE UNCHANGED <<Checks, Healthy, run>>]_vars

\* RemoveCheck has removed the first of two elements, and the second, which was
\* checked, has taken its place
C9_Witness ==
    /\ cpc = "RemoveCheck_L102"
    /\ Checks.len = 1
    /\ Cap(Checks) = 2
    /\ Checks.arr[1].Service # args.service
    /\ Checks.arr[1].LastChecked > 0
    /\ Checks.arr[2].Service = Checks.arr[1].Service


\* C10: runChecker calls the Check() of the element it is given, once, and
\* records the outcome on that element: no error gives Healthy and the Message
\* "OK"; an error gives not Healthy and a Message that holds the element's
\* Service and the error's text; LastChecked ends non-zero; whatever the element
\* held before.
C10_RunCheckerRecords ==
    /\ spc = "L109" => probe = Nil
    /\ spc = "Check" => probe = Target.checker
    /\ spc \in {"L112", "L117", "L152"} =>
           probe = Nil /\ err = Check(Target.checker)
    /\ spc = "L152" =>
           /\ Check(Target.checker) = Nil =>
                  Target.Healthy /\ Target.Message = <<"OK">>
           /\ Check(Target.checker) # Nil =>
                  /\ ~Target.Healthy
                  /\ \E i \in 1..Len(Target.Message) :
                         Target.Message[i] = Target.Service
                  /\ \E i \in 1..Len(Target.Message) :
                         Target.Message[i] = Check(Target.checker)
           /\ Target.LastChecked > 0

\* runChecker has returned from an element whose probe fails
C10_Witness ==
    /\ spc = "L152"
    /\ Check(Target.checker) = "Generic Error"
    /\ ~Target.Healthy
    /\ Target.Message = <<Target.Service, " ERROR ", "Generic Error">>
    /\ Target.LastChecked > 0

\* the registry holds no entry that counts for the aggregate
NoCritical(s) == \A i \in 1..s.len : s.arr[i].ObserveOnly

\* C11: whenever the registry holds no non-observe-only entry, a freshly made
\* empty registry included, the aggregate a reader sees under the mutex is
\* true and the handler answers 200.
C11_VacuousAggregateIsHealthy ==
    (cpc = "HTTPHandler_L189" /\ NoCritical(Checks))
        => (Healthy /\ StatusCode(Healthy) = 200)

C13_CursorValidAtSelection ==
    /\ spc = "L151" => (0 <= nextIndex /\ nextIndex < Checks.len)
    /\ spc # "panicked"

\* a step of runChecker that assigns a field of *checker (lines 111-117)
RunCheckerWrites == spc \in {"Check", "L112", "L117"} /\ spc' # spc

\* C14: the result of a probe is recorded only on the entry whose Check() was
\* called: a write of runChecker leaves every entry of another name as it
\* was, whatever was removed, moved or appended while the probe was in flight.
C14_ResultOnlyOnEvaluatedEntry ==
    [][RunCheckerWrites
         => \A i \in 1..Checks.len :
               Checks.arr[i].Service # evaluating
                   => Checks'.arr[i] = Checks.arr[i]]_vars

\* C15: every write of an entry's Healthy, Message or LastChecked is made by
\* a writer that holds the mutex: the loop records the result of a probe only
\* after it has taken the mutex again.
C15_WritesUnderLock ==
    [][RunCheckerWrites => lock = "sched"]_vars

\* a caller that is outside the package can start every operation, and one
\* that is inside an operation can finish it
CallerCanProceed ==
    /\ cpc = "idle" =>
          /\ \A call \in Calls : ENABLED AddCheck(call[1], call[2], call[3])
          /\ \A service \in Names : ENABLED RemoveCheck(service)
          /\ ENABLED StopCheckers
          /\ ENABLED HTTPHandlerLock
    /\ cpc \in {"AddCheck_L89", "AddCheck_L92"} => ENABLED AddCheckUnlock
    /\ cpc \in {"RemoveCheck_L102", "RemoveCheck_L105"} => ENABLED RemoveCheckUnlock
    /\ cpc = "StopCheckers_L173" => ENABLED StopCheckersUnlock
    /\ cpc = "HTTPHandler_L189" => ENABLED HTTPHandler

Unchecked(s) == {i \in 0..(s.len - 1) : s.arr[i + 1].LastChecked = 0}

\* the index the next evaluation that records a result will be made at
NextEvaluated ==
    IF spc \in {"L151", "L109", "Check", "L112", "L117"}
    THEN nextIndex
    ELSE IF spc = "L152" THEN (nextIndex + 1) % Checks.len
    ELSE IF nextIndex >= Checks.len THEN 0 ELSE nextIndex

\* the u indexes from k on, cyclically, in a list of n
CyclicFrom(k, u, n) == {(k + j) % n : j \in 0..(u - 1)}

\* C17: with N >= 1 entries and no mutation, from whatever nextIndex, each
\* tick evaluates one entry, in cyclic order: a tick records its result on the
\* entry at nextIndex, which was not evaluated before as long as any such entry
\* is left, and the entries not yet evaluated are always the ones the coming
\* ticks reach next, so N consecutive ticks evaluate each entry exactly once.
C17_RoundRobin ==
    [][/\ (spc = "L117" /\ spc' = "L152")
            => /\ \A i \in 0..(Checks.len - 1) :
                      i # nextIndex => Checks'.arr[i + 1] = Checks.arr[i + 1]
               /\ Unchecked(Checks) # {}
                      => /\ nextIndex \in Unchecked(Checks)
                         /\ Unchecked(Checks') = Unchecked(Checks) \ {nextIndex}
       /\ (spc = "L140" /\ spc' # spc) => spc' = "L151"
       /\ (spc' = "L164" /\ spc' # spc) => spc = "L152"
       /\ spc' # "panicked"
       /\ Unchecked(Checks') =
              CyclicFrom(NextEvaluated', Cardinality(Unchecked(Checks')),
                         Checks'.len)]_vars

\* three entries, all evaluated: the loop is asleep after the tick that
\* evaluated the last entry of the list
C17_Witness ==
    /\ Checks.len = 3
    /\ Unchecked(Checks) = {}
    /\ spc = "L136"
    /\ nextIndex = 3
    /\ \A i \in 1..3 : Checks.arr[i].LastChecked > 0

\* C18 as stated: once StopCheckers has completed, the next time the loop
\* holds the mutex it is at the test of h.run (line 141) and returns; it does
\* not hold the mutex anywhere else with h.run cleared, so it starts no
\* further sleep.
C18_NextLockObservesStop ==
    (lock = "sched" /\ ~run /\ spc # "L126") => spc = "L140"

\* C18, amended: with h.run cleared the loop returns at its first lock
\* acquisition that follows a sleep (lines 139-144) and selects no entry; the
\* flag stays cleared; a tick in progress is finished first: the h.Lock() of
\* line 152 does not look at h.run, and the loop sleeps once more.
C18_StopObservedAfterSleep ==
    [][/\ (spc = "L140" /\ ~run /\ spc' # spc)
            => (spc' = "returned" /\ lock' = "free" /\ UNCHANGED <<Checks, Healthy>>)
       /\ (spc' = "L151" /\ spc # "L151") => run
       /\ (~run /\ spc \notin {"idle", "L125", "L126"}) => ~run'
       /\ (~run /\ spc = "L152" /\ spc' # spc) => spc' = "L164"
       /\ (~run /\ spc = "L164" /\ spc' # spc)
            => /\ spc' = "L136"
               /\ sleepDuration' = SleepFor(frequency, count, firstPass)
               /\ sleepDuration' > 0]_vars

\* StopCheckers has completed while a probe ran, and the loop, holding the
\* mutex again after line 152, is about to sleep once more
C18_Witness ==
    /\ spc = "L164"
    /\ ~run
    /\ cpc = "idle"
    /\ Checks.len > 0

\* the loop starts a sleep: h.Unlock() at line 128 or 164, then lines 132-136
StartsSleep == spc' = "L136" /\ spc # "L136"

\* count is assigned: line 127 at the start, line 140 after each sleep
RefreshesCount == spc \in {"L126", "L140"} /\ spc' # spc

\* C19 as stated: count is max(1, number of checks) at each refresh, never
\* zero; outside the fast phase the sleep is frequency/count; and with N >= 1
\* checks unchanged since the refresh N such sleeps add up to frequency
\* (up to the rounding of the integer division).
C19_SleepIsFrequencyOverChecks ==
    [][/\ RefreshesCount
            => count' = (IF Checks.len > 1 THEN Checks.len ELSE 1)
       /\ StartsSleep
            => /\ count' >= 1
               /\ ~firstPass' => sleepDuration' = (frequency' * Second) \div count'
       /\ (StartsSleep /\ ~firstPass' /\ Checks'.len >= 1)
            => /\ Checks'.len * sleepDuration' <= frequency' * Second
               /\ Checks'.len * sleepDuration' > frequency' * Second - Checks'.len]_vars

\* C19, amended: count is the number of checks plus one at each refresh, so
\* never zero; outside the fast phase the sleep is frequency/count; and with
\* N >= 1 checks unchanged since the refresh N such sleeps add up to
\* N * (frequency / (N + 1)), less than frequency.
C19_SleepIsFrequencyOverChecksPlusOne ==
    [][/\ RefreshesCount => count' = Checks.len + 1
       /\ StartsSleep
            => /\ count' >= 1
               /\ ~firstPass' => sleepDuration' = (frequency' * Second) \div count'
       /\ (StartsSleep /\ ~firstPass' /\ Checks'.len >= 1
             /\ count' = Checks'.len + 1)
            => /\ Checks'.len * sleepDuration'
                    = Checks'.len * ((frequency' * Second) \div (Checks'.len + 1))
               /\ Checks'.len * sleepDuration' < frequency' * Second]_vars

\* two checks, frequency 2 s, after the fast phase: the loop sleeps 2 s / 3
C19_Witness ==
    /\ spc = "L136"
    /\ ~firstPass
    /\ Checks.len = 2
    /\ count = 3
    /\ frequency = 2
    /\ sleepDuration = 666666666

\* C20 as stated: a sleep is the short delay while an evaluation of the first
\* rotation is still to come (firstPass set and nextIndex short of the end of
\* the list); once the first rotation has completed, the sleep after a tick is
\* frequency/count.
C20_ShortDelayOnlyInFirstRotation ==
    [][(spc = "L164" /\ StartsSleep)
         => sleepDuration' = (IF firstPass /\ nextIndex < Checks.len
                              THEN 10 * Millisecond
                              ELSE (frequency * Second) \div count)]_vars

\* C20, amended: RunCheckers starts with firstPass set; every sleep started
\* while it is set is the short delay, every other sleep frequency/count;
\* firstPass is cleared exactly when a tick finds nextIndex at or past the end
\* of the list (the cursor wraps to 0), which is after the sleep that precedes
\* that tick, and is never set again.  So the sleep after the last evaluation
\* of the first rotation is still the short delay.
C20_ShortDelayUntilWrapDetected ==
    [][/\ (spc = "idle" /\ spc' # spc) => (firstPass' /\ nextIndex' = 0)
       /\ StartsSleep
            => sleepDuration' = (IF firstPass' THEN 10 * Millisecond
                                 ELSE (frequency' * Second) \div count')
       /\ (spc = "L140" /\ run /\ spc' # spc)
            => /\ firstPass' <=> (firstPass /\ nextIndex < Checks.len)
               /\ nextIndex >= Checks.len
                    => nextIndex' = (IF Checks.len > 0 THEN 0 ELSE 1)
       /\ (spc # "idle" /\ (spc # "L140" \/ ~run)) => firstPass' = firstPass
       /\ (spc = "L164" /\ StartsSleep /\ firstPass /\ nextIndex >= Checks.len)
            => sleepDuration' = 10 * Millisecond]_vars

\* both entries of the first rotation are evaluated, the cursor is at the end
\* of the list, and the loop sleeps the short delay once more
C20_Witness ==
    /\ spc = "L136"
    /\ firstPass
    /\ Checks.len = 2
    /\ nextIndex = 2
    /\ \A i \in 1..2 : Checks.arr[i].LastChecked > 0
    /\ sleepDuration = 10 * Millisecond

============================================================================
